---------------------------- MODULE Spec2Model ----------------------------
(***************************************************************************)
(* Model of the two model-definition files of the repository:              *)
(*   llms/LLMs-from-scratch/gpt2.py       generate_text_simple, LayerNrom   *)
(*   audio/GLM-4-Voice/cosyvoice/flow/flow.py  MaskedDiffWithXvec.inference *)
(* Tensors are modelled by their shapes and by small integer entries.      *)
(* Three specifications share the module: SpecGPT (greedy decoding loop),  *)
(* SpecNorm (layer normalisation) and SpecFlow (flow inference).           *)
(***************************************************************************)
EXTENDS Integers, Sequences, FiniteSets, TLC

(***************************************************************************)
(* Bounds of the model.                                                    *)
(***************************************************************************)
VocabSize == 2
MaxLogit == 1
MaxInitLen == 1
MaxNewTokens == 3
MaxContext == 2
EmbDim == 2
MaxAbsX == 2
MaxAddend == 2
MaxScale == 2
MaxShift == 1
MaxFrameVal == 2
MaxTokenBatch == 2
MaxTokenLen == 2
MaxPromptTokenLen == 1
MaxPromptFeat == 3

\* default of the constructor argument input_frame_rate
input_frame_rate == 50

Vocab == 0 .. (VocabSize - 1)
LogitVals == 0 .. MaxLogit
BatchSizes == {1, 2}

VARIABLES
    \* ---- generate_text_simple (gpt2.py:138-149)
    pc,              \* position in generate_text_simple
    model,           \* the model argument: weights of a deterministic scorer
    idx_in,          \* the caller's idx argument (never mutated: torch.cat copies)
    idx,             \* local idx: one token sequence per batch row
    max_new_tokens,
    context_size,
    iter,            \* number of completed iterations of the for loop
    idx_cond,
    logits,
    probas,
    idx_next,
    calls,           \* number of calls of model(...) made so far
    out,             \* returned tensor
    \* ---- LayerNrom (gpt2.py:48-59)
    x,               \* input vector (the last dimension of a tensor)
    shift_c,         \* a constant added to every element of x
    scale,           \* self.scale
    shift,           \* self.shift
    y,               \* forward(x), forward(x + shift_c)
    \* ---- MaskedDiffWithXvec.inference (flow.py:102-144)
    f_pc,            \* position in inference
    batch,           \* token.shape[0]
    token_len_in,    \* the token_len argument
    token_len,       \* local token_len (rebound on line 117)
    prompt_token_len,
    prompt_feat,     \* frames of prompt_feat[0]; shape[1] is its length
    prompt_feat_len,
    h_len,           \* time length of h
    feat_len,
    conds,           \* frames of conds[0]
    dec_out,         \* frames of the decoder's output
    feat,            \* returned feature
    invoked          \* calls made to encoder, length_regulator, decoder

gptVars == <<pc, model, idx_in, idx, max_new_tokens, context_size, iter,
             idx_cond, logits, probas, idx_next, calls, out>>

normVars == <<x, shift_c, scale, shift, y>>

flowVars == <<f_pc, batch, token_len_in, token_len, prompt_token_len,
              prompt_feat, prompt_feat_len, h_len, feat_len, conds, dec_out,
              feat, invoked>>

vars == <<gptVars, normVars, flowVars>>

Unset == <<>>

(***************************************************************************)
(* Helpers on sequences.                                                   *)
(***************************************************************************)
Min(a, b) == IF a <= b THEN a ELSE b
Max(a, b) == IF a >= b THEN a ELSE b

RECURSIVE Pow(_, _)
Pow(b, n) == IF n <= 0 THEN 1 ELSE b * Pow(b, n - 1)

RECURSIVE SumSeq(_)
SumSeq(s) == IF s = <<>> THEN 0 ELSE Head(s) + SumSeq(Tail(s))

SeqsOfLen(S, n) == [1 .. n -> S]

(***************************************************************************)
(* Python slice s[start:] of a sequence: a negative start counts from the  *)
(* end and is clamped at the beginning; -0 is 0.                           *)
(***************************************************************************)
PySliceFrom(s, start) ==
    LET n == Len(s)
        b == IF start < 0 THEN Max(n + start, 0) ELSE Min(start, n)
    IN  SubSeq(s, b + 1, n)

\* mutant: keeps the oldest tokens, idx[:, :context_size]
CropContextHead(t, c) == [r \in DOMAIN t |-> SubSeq(t[r], 1, Min(c, Len(t[r])))]

\* idx[:, -context_size:]
CropContext(t, c) == [r \in DOMAIN t |-> PySliceFrom(t[r], 0 - c)]

(***************************************************************************)
(* model(idx_cond): logits of shape [batch, seq, vocab].  The model is an  *)
(* argument of generate_text_simple; it is represented by a deterministic  *)
(* scorer whose logit for candidate v at position p depends on the token   *)
(* at p and on p (token and position embedding), through a weight table.   *)
(***************************************************************************)
ModelCall(m, t) ==
    [r \in DOMAIN t |->
        [p \in 1 .. Len(t[r]) |->
            [v \in Vocab |-> m[(t[r][p] + v + p) % VocabSize]]]]

\* logits[:, -1, :]
LastPosition(l) == [r \in DOMAIN l |-> l[r][Len(l[r])]]

(***************************************************************************)
(* torch.softmax(logits, dim=-1) in exact arithmetic: exp(x) / sum exp.    *)
(* A probability is kept as a fraction num/den; exp is taken to a fixed    *)
(* base > 1 relative to the smallest logit (the base does not change the   *)
(* order of the probabilities).  Floating-point rounding is not modelled.  *)
(***************************************************************************)
RECURSIVE SumExp(_, _, _)
SumExp(l, lo, S) ==
    IF S = {} THEN 0
    ELSE LET v == CHOOSE w \in S : TRUE
         IN  Pow(3, l[v] - lo) + SumExp(l, lo, S \ {v})

SoftmaxRow(l) ==
    LET lo == CHOOSE a \in {l[v] : v \in DOMAIN l} :
                  \A b \in {l[v] : v \in DOMAIN l} : a <= b
        den == SumExp(l, lo, DOMAIN l)
    IN  [v \in DOMAIN l |-> [num |-> Pow(3, l[v] - lo), den |-> den]]

Softmax(l) == [r \in DOMAIN l |-> SoftmaxRow(l[r])]

FracLess(a, b) == a.num * b.den < b.num * a.den

\* mutant: selects the smallest probability
ArgminRow(p) ==
    CHOOSE v \in DOMAIN p :
        /\ \A w \in DOMAIN p : ~FracLess(p[w], p[v])
        /\ \A w \in DOMAIN p : (w < v) => FracLess(p[v], p[w])

\* torch.argmax(p, dim=-1): the first index holding the largest value
ArgmaxRow(p) ==
    CHOOSE v \in DOMAIN p :
        /\ \A w \in DOMAIN p : ~FracLess(p[v], p[w])
        /\ \A w \in DOMAIN p : (w < v) => FracLess(p[w], p[v])

Argmax(p) == [r \in DOMAIN p |-> ArgmaxRow(p[r])]

\* mutant: torch.cat((idx_next, idx), dim=1)
CatColumnFront(t, col) == [r \in DOMAIN t |-> <<col[r]>> \o t[r]]

\* torch.cat((idx, idx_next), dim=1)
CatColumn(t, col) == [r \in DOMAIN t |-> Append(t[r], col[r])]

\* mutant: the loop runs once more, range(max_new_tokens + 1)
RangeHasNextOffByOne(i, n) == i <= n

\* range(max_new_tokens) still has an element after i iterations
RangeHasNext(i, n) == i < n

(***************************************************************************)
(* Values of the variables of a function that is not running.              *)
(***************************************************************************)
GPTIdle ==
    /\ pc = "idle" /\ model = Unset /\ idx_in = Unset /\ idx = Unset
    /\ max_new_tokens = 0 /\ context_size = 0 /\ iter = 0
    /\ idx_cond = Unset /\ logits = Unset /\ probas = Unset
    /\ idx_next = Unset /\ calls = 0 /\ out = Unset

NormIdle ==
    /\ x = Unset /\ shift_c = 0 /\ scale = Unset /\ shift = Unset /\ y = Unset

FlowIdle ==
    /\ f_pc = "idle" /\ batch = 0 /\ token_len_in = 0 /\ token_len = 0
    /\ prompt_token_len = 0 /\ prompt_feat = Unset /\ prompt_feat_len = 0
    /\ h_len = 0 /\ feat_len = 0 /\ conds = Unset /\ dec_out = Unset
    /\ feat = Unset /\ invoked = Unset

(***************************************************************************)
(* generate_text_simple                                                    *)
(***************************************************************************)
InitGPT ==
    /\ pc = "loop"
    /\ model \in [Vocab -> LogitVals]
    /\ \E b \in BatchSizes : \E n \in 1 .. MaxInitLen :
           idx_in \in [1 .. b -> SeqsOfLen(Vocab, n)]
    /\ idx = idx_in
    /\ max_new_tokens \in 0 .. MaxNewTokens
    /\ context_size \in 0 .. MaxContext
    /\ iter = 0
    /\ idx_cond = Unset
    /\ logits = Unset
    /\ probas = Unset
    /\ idx_next = Unset
    /\ calls = 0
    /\ out = Unset
    /\ NormIdle
    /\ FlowIdle

\* line 140: idx_cond = idx[:, -context_size:]
Crop ==
    /\ pc = "loop"
    /\ RangeHasNext(iter, max_new_tokens)
    /\ idx_cond' = CropContext(idx, context_size)
    /\ pc' = "call"
    /\ UNCHANGED <<model, idx_in, idx, max_new_tokens, context_size, iter,
                   logits, probas, idx_next, calls, out>>
    /\ UNCHANGED <<normVars, flowVars>>

\* lines 141-142: logits = model(idx_cond)
CallModel ==
    /\ pc = "call"
    /\ logits' = ModelCall(model, idx_cond)
    /\ calls' = calls + 1
    /\ pc' = "select"
    /\ UNCHANGED <<model, idx_in, idx, max_new_tokens, context_size, iter,
                   idx_cond, probas, idx_next, out>>
    /\ UNCHANGED <<normVars, flowVars>>

\* lines 144-146: last position, softmax, argmax
Select ==
    /\ pc = "select"
    /\ logits' = LastPosition(logits)
    /\ probas' = Softmax(logits')
    /\ idx_next' = Argmax(probas')
    /\ pc' = "cat"
    /\ UNCHANGED <<model, idx_in, idx, max_new_tokens, context_size, iter,
                   idx_cond, calls, out>>
    /\ UNCHANGED <<normVars, flowVars>>

\* line 147: idx = torch.cat((idx, idx_next), dim=1)
Cat ==
    /\ pc = "cat"
    /\ idx' = CatColumn(idx, idx_next)
    /\ iter' = iter + 1
    /\ pc' = "loop"
    /\ UNCHANGED <<model, idx_in, max_new_tokens, context_size,
                   idx_cond, logits, probas, idx_next, calls, out>>
    /\ UNCHANGED <<normVars, flowVars>>

\* line 149: return idx
Return ==
    /\ pc = "loop"
    /\ ~RangeHasNext(iter, max_new_tokens)
    /\ out' = idx
    /\ pc' = "done"
    /\ UNCHANGED <<model, idx_in, idx, max_new_tokens, context_size, iter,
                   idx_cond, logits, probas, idx_next, calls>>
    /\ UNCHANGED <<normVars, flowVars>>

NextGPT == Crop \/ CallModel \/ Select \/ Cat \/ Return

SpecGPT == InitGPT /\ [][NextGPT]_vars

\* the loop is sequential code: every enabled step is eventually taken
FairSpecGPT == SpecGPT /\ WF_vars(NextGPT)


(***************************************************************************)
(* LayerNrom.forward over the last dimension, in exact arithmetic.         *)
(* With D = emb_dim and S = sum(x): mean = S / D and, unbiased=False,       *)
(* var = (D * sum(x^2) - S^2) / D^2.  An output element is kept as the     *)
(* record [coef, var, off] that stands for                                 *)
(*        coef / (D * sqrt(var / D^2 + eps))  +  off / D                   *)
(* so that no square root has to be evaluated.                             *)
(***************************************************************************)
Dims(v) == 1 .. Len(v)

\* x.mean(dim=-1, keepdim=True), times D
MeanTimesD(v) == SumSeq(v)

\* x.var(dim=-1, keepdim=True, unbiased=False), times D^2
VarTimesD2(v) == Len(v) * SumSeq([i \in Dims(v) |-> v[i] * v[i]]) - SumSeq(v) * SumSeq(v)

\* norm_x = (x - mean) / torch.sqrt(var + self.eps): its coefficient
NormCoef(v, i) == Len(v) * v[i] - MeanTimesD(v)

\* line 59: return self.scale * norm_x - mean + self.shift
LayerNromForward(v, sc, sh) ==
    [i \in Dims(v) |->
        [coef |-> sc[i] * NormCoef(v, i),
         var  |-> VarTimesD2(v),
         off  |-> (0 - MeanTimesD(v)) + Len(v) * sh[i]]]

AddConstant(v, c) == [i \in Dims(v) |-> v[i] + c]

InitNorm ==
    /\ x \in SeqsOfLen((0 - MaxAbsX) .. MaxAbsX, EmbDim)
    /\ shift_c \in 1 .. MaxAddend
    /\ scale \in SeqsOfLen(1 .. MaxScale, EmbDim)
    /\ shift \in SeqsOfLen(0 .. MaxShift, EmbDim)
    /\ y = [k \in {"x", "x+c"} |-> Unset]
    /\ GPTIdle
    /\ FlowIdle

\* forward(x)
ForwardPlain ==
    /\ y # Unset
    /\ y["x"] = Unset
    /\ y' = [y EXCEPT !["x"] = LayerNromForward(x, scale, shift)]
    /\ UNCHANGED <<x, shift_c, scale, shift>>
    /\ UNCHANGED <<gptVars, flowVars>>

\* forward(x + c)
ForwardShifted ==
    /\ y # Unset
    /\ y["x+c"] = Unset
    /\ y' = [y EXCEPT !["x+c"] =
                 LayerNromForward(AddConstant(x, shift_c), scale, shift)]
    /\ UNCHANGED <<x, shift_c, scale, shift>>
    /\ UNCHANGED <<gptVars, flowVars>>

NextNorm == ForwardPlain \/ ForwardShifted

SpecNorm == InitNorm /\ [][NextNorm]_vars

(***************************************************************************)
(* MaskedDiffWithXvec.inference.  A feature tensor of shape [1, T, 80] is  *)
(* modelled by its T frames, each frame one small integer (0 is the zero   *)
(* frame).  encoder, length_regulator and decoder are constructor          *)
(* arguments: only the time lengths they produce are modelled, and the     *)
(* decoder's output frames depend on the condition, the frame position and *)
(* a noise seed.                                                           *)
(***************************************************************************)
FrameVals == 0 .. MaxFrameVal

Zeros(n) == [k \in 1 .. n |-> 0]

\* mutant: assert token.shape[0] >= 1
AssertAtLeastOne(b) == b >= 1

\* line 111: assert token.shape[0] == 1
AssertHolds(b) == b = 1

\* line 124: (token_len / self.input_frame_rate * 22050 / 256).int(), the
\* truncation of an exact quotient (for the lengths of the model the
\* quotient is never within rounding distance of an integer)
FeatLen(n) == (n * 22050) \div (input_frame_rate * 256)

\* mutant: the prompt fills the last frames of conds
AssignPromptAtEnd(c, j, src) ==
    [k \in 1 .. Len(c) |->
        IF k > Len(c) - Min(j, Len(c))
        THEN (IF Len(src) = 1 THEN src[1] ELSE src[k - (Len(c) - Min(j, Len(c)))])
        ELSE c[k]]

\* line 131: conds[i, :j] = prompt_feat[i]; the source is broadcast when it
\* has one frame
AssignPrompt(c, j, src) ==
    [k \in 1 .. Len(c) |->
        IF k <= Min(j, Len(c))
        THEN (IF Len(src) = 1 THEN src[1] ELSE src[k])
        ELSE c[k]]

\* the assignment raises unless the source has as many frames as the
\* target slice conds[i, :j], or exactly one
Assignable(c, j, src) == Len(src) = Min(j, Len(c)) \/ Len(src) = 1

\* lines 135-141: output of self.decoder, as long as mu
Decoder(mu_len, cond, seed) ==
    [k \in 1 .. mu_len |-> (cond[k] + k + seed) % (MaxFrameVal + 1)]

\* mutant: feat[:, :, :-prompt_feat.shape[1]]
DropLastFrames(d, n) == SubSeq(d, 1, Len(d) - Min(n, Len(d)))

\* line 143: feat[:, :, prompt_feat.shape[1]:]
DropPromptFrames(d, n) == PySliceFrom(d, n)

InitFlow ==
    /\ f_pc = "assert"
    /\ batch \in 0 .. MaxTokenBatch
    /\ token_len_in \in 1 .. MaxTokenLen
    /\ token_len = token_len_in
    /\ prompt_token_len \in 0 .. MaxPromptTokenLen
    /\ \E n \in 0 .. MaxPromptFeat : prompt_feat \in SeqsOfLen(FrameVals, n)
    /\ prompt_feat_len \in 0 .. (MaxPromptFeat + 1)
    /\ h_len = 0
    /\ feat_len = 0
    /\ conds = Unset
    /\ dec_out = Unset
    /\ feat = Unset
    /\ invoked = [f \in {"encoder", "length_regulator", "decoder"} |-> 0]
    /\ GPTIdle
    /\ NormIdle

\* line 111
AssertBatch ==
    /\ f_pc = "assert"
    /\ f_pc' = IF AssertHolds(batch) THEN "encode" ELSE "AssertionError"
    /\ UNCHANGED <<batch, token_len_in, token_len, prompt_token_len,
                   prompt_feat, prompt_feat_len, h_len, feat_len, conds,
                   dec_out, feat, invoked>>
    /\ UNCHANGED <<gptVars, normVars>>

\* lines 113-123: xvec projection, concat of prompt and text, encoder
Encode ==
    /\ f_pc = "encode"
    /\ token_len' = prompt_token_len + token_len
    /\ h_len' = token_len'
    /\ invoked' = [invoked EXCEPT !["encoder"] = @ + 1]
    /\ f_pc' = "regulate"
    /\ UNCHANGED <<batch, token_len_in, prompt_token_len, prompt_feat,
                   prompt_feat_len, feat_len, conds, dec_out, feat>>
    /\ UNCHANGED <<gptVars, normVars>>

\* lines 124-125: feat_len and length_regulator
Regulate ==
    /\ f_pc = "regulate"
    /\ feat_len' = FeatLen(token_len)
    /\ h_len' = feat_len'
    /\ invoked' = [invoked EXCEPT !["length_regulator"] = @ + 1]
    /\ f_pc' = "conds"
    /\ UNCHANGED <<batch, token_len_in, token_len, prompt_token_len,
                   prompt_feat, prompt_feat_len, conds, dec_out, feat>>
    /\ UNCHANGED <<gptVars, normVars>>

\* lines 128-132: conds
Conditions ==
    /\ f_pc = "conds"
    /\ IF Len(prompt_feat) # 0
       THEN IF Assignable(Zeros(feat_len), prompt_feat_len, prompt_feat)
            THEN /\ conds' = AssignPrompt(Zeros(feat_len), prompt_feat_len,
                                          prompt_feat)
                 /\ f_pc' = "decode"
            ELSE /\ conds' = Zeros(feat_len)
                 /\ f_pc' = "RuntimeError"
       ELSE /\ conds' = Zeros(feat_len)
            /\ f_pc' = "decode"
    /\ UNCHANGED <<batch, token_len_in, token_len, prompt_token_len,
                   prompt_feat, prompt_feat_len, h_len, feat_len, dec_out,
                   feat, invoked>>
    /\ UNCHANGED <<gptVars, normVars>>

\* lines 134-141: decoder
Decode ==
    /\ f_pc = "decode"
    /\ \E seed \in FrameVals : dec_out' = Decoder(h_len, conds, seed)
    /\ invoked' = [invoked EXCEPT !["decoder"] = @ + 1]
    /\ f_pc' = "return"
    /\ UNCHANGED <<batch, token_len_in, token_len, prompt_token_len,
                   prompt_feat, prompt_feat_len, h_len, feat_len, conds, feat>>
    /\ UNCHANGED <<gptVars, normVars>>

\* lines 142-144
ReturnFeat ==
    /\ f_pc = "return"
    /\ feat' = IF Len(prompt_feat) # 0
               THEN DropPromptFrames(dec_out, Len(prompt_feat))
               ELSE dec_out
    /\ f_pc' = "done"
    /\ UNCHANGED <<batch, token_len_in, token_len, prompt_token_len,
                   prompt_feat, prompt_feat_len, h_len, feat_len, conds,
                   dec_out, invoked>>
    /\ UNCHANGED <<gptVars, normVars>>

NextFlow ==
    AssertBatch \/ Encode \/ Regulate \/ Conditions \/ Decode \/ ReturnFeat

SpecFlow == InitFlow /\ [][NextFlow]_vars

(***************************************************************************)
(* Properties of generate_text_simple.                                     *)
(***************************************************************************)
IsPrefix(p, s) == Len(p) <= Len(s) /\ SubSeq(s, 1, Len(p)) = p
IsSuffix(p, s) == Len(p) <= Len(s) /\ SubSeq(s, Len(s) - Len(p) + 1, Len(s)) = p
LastN(s, n) == SubSeq(s, Len(s) - n + 1, Len(s))

\* tokens generated so far in row r (idx without the caller's tokens)
Generated(r) == SubSeq(idx[r], Len(idx_in[r]) + 1, Len(idx[r]))

\* idx_cond holds the input of the iteration in progress / just completed
HasModelInput == pc \in {"call", "select", "cat"}

\* C1: every token appended to a row of idx is a highest-scoring token of
\* the model's output at the last position of idx_cond for that row.
C1_GreedyPicksMaxLogit ==
    (pc = "loop" /\ iter > 0) =>
        \A r \in DOMAIN idx :
            LET full == ModelCall(model, idx_cond)[r]
                last == full[Len(idx_cond[r])]
                tok  == idx[r][Len(idx[r])]
            IN  /\ tok = idx_next[r]
                /\ \A v \in Vocab : last[v] <= last[tok]

\* a token other than the first of the vocabulary won strictly, in a batch
\* of two rows whose appended tokens differ
C1_Witness ==
    /\ pc = "loop" /\ iter > 0
    /\ Len(idx_cond[1]) >= 2
    /\ DOMAIN idx = 1 .. 2
    /\ idx_next[1] # idx_next[2]
    /\ \E r \in DOMAIN idx : logits[r][0] < logits[r][idx_next[r]]

\* C2: generate_text_simple terminates after exactly max_new_tokens model
\* calls and returns rows of length (initial length + max_new_tokens), for
\* every max_new_tokens >= 0; with max_new_tokens = 0 the model is never
\* called and idx is returned unchanged.
C2_TerminatesWithLength ==
    /\ <>(pc = "done")
    /\ [](calls <= max_new_tokens)
    /\ [](pc = "done" =>
            /\ calls = max_new_tokens
            /\ DOMAIN out = DOMAIN idx_in
            /\ \A r \in DOMAIN out : Len(out[r]) = Len(idx_in[r]) + max_new_tokens
            /\ (max_new_tokens = 0 => (calls = 0 /\ out = idx_in)))

C2_Witness ==
    /\ pc = "done"
    /\ max_new_tokens >= 2
    /\ calls = max_new_tokens
    /\ Len(out[1]) = Len(idx_in[1]) + max_new_tokens

\* C3 as stated: the caller's idx stays a prefix of the sequence, and the
\* input of the k-th model call contains all k-1 tokens generated before.
C3_InputContainsAllGenerated ==
    /\ \A r \in DOMAIN idx : IsPrefix(idx_in[r], idx[r])
    /\ HasModelInput =>
           \A r \in DOMAIN idx : IsSuffix(Generated(r), idx_cond[r])

\* C3 amended: each step leaves the previous sequence as a prefix of the new
\* one; the input of the k-th model call is a tail of the sequence: it holds
\* all k-1 generated tokens when context_size is 0 or at least k-1, and
\* otherwise exactly the most recent context_size of them.
C3_AppendOnlyTailInput ==
    /\ [][\A r \in DOMAIN idx : IsPrefix(idx[r], idx'[r])]_vars
    /\ [](\A r \in DOMAIN idx : IsPrefix(idx_in[r], idx[r]))
    /\ [](pc = "done" => \A r \in DOMAIN out : IsPrefix(idx_in[r], out[r]))
    /\ [](HasModelInput =>
            \A r \in DOMAIN idx :
                LET g == Generated(r)
                IN  /\ Len(g) = iter
                    /\ IsSuffix(idx_cond[r], idx[r])
                    /\ (context_size = 0 \/ context_size >= Len(g))
                           => IsSuffix(g, idx_cond[r])
                    /\ (context_size >= 1 /\ context_size < Len(g))
                           => idx_cond[r] = LastN(g, context_size))

\* the third token is being computed from a window shorter than the two
\* tokens generated before it
C3_Witness ==
    /\ pc = "call"
    /\ iter >= 2
    /\ context_size >= 1 /\ context_size < iter
    /\ idx_cond[1] = LastN(Generated(1), context_size)

\* C8 as stated: for every context_size >= 0 the model input is the most
\* recent min(current length, context_size) tokens of idx.
C8_WindowForAnyContext ==
    HasModelInput =>
        \A r \in DOMAIN idx :
            /\ idx_cond[r] = LastN(idx[r], Min(Len(idx[r]), context_size))
            /\ Len(idx_cond[r]) <= context_size

\* C8 amended: the same for every context_size >= 1 (context_size = 0
\* passes the whole sequence).
C8_WindowForPositiveContext ==
    /\ (HasModelInput /\ context_size >= 1) =>
           \A r \in DOMAIN idx :
               /\ idx_cond[r] = LastN(idx[r], Min(Len(idx[r]), context_size))
               /\ Len(idx_cond[r]) <= context_size
    /\ (HasModelInput /\ context_size = 0) =>
           \A r \in DOMAIN idx : idx_cond[r] = idx[r]

\* idx has outgrown the window and the model is called on its tail
C8_Witness ==
    /\ pc = "select"
    /\ context_size >= 1
    /\ Len(idx[1]) > context_size
    /\ Len(idx_cond[1]) = context_size


(***************************************************************************)
(* Properties of LayerNrom.                                                *)
(***************************************************************************)
\* scale * (x - mean) / sqrt(var + eps) + shift, in the same representation
StandardLayerNorm(v, sc, sh) ==
    [i \in Dims(v) |->
        [coef |-> sc[i] * (Len(v) * v[i] - SumSeq(v)),
         var  |-> Len(v) * SumSeq([j \in Dims(v) |-> v[j] * v[j]])
                      - SumSeq(v) * SumSeq(v),
         off  |-> Len(v) * sh[i]]]

InitialParameters ==
    /\ \A i \in Dims(scale) : scale[i] = 1
    /\ \A i \in Dims(shift) : shift[i] = 0

\* C4: forward(x) = scale * (x - mean) / sqrt(var + eps) + shift; with the
\* initial parameters the output has mean 0 over the last dimension and is
\* unchanged when a constant is added to every element of x.
C4_LayerNormFormula ==
    /\ y # Unset =>
        /\ y["x"] # Unset => y["x"] = StandardLayerNorm(x, scale, shift)
        /\ y["x+c"] # Unset =>
               y["x+c"] = StandardLayerNorm(AddConstant(x, shift_c), scale, shift)
        /\ (InitialParameters /\ y["x"] # Unset) =>
               /\ SumSeq([i \in Dims(x) |-> y["x"][i].coef]) = 0
               /\ SumSeq([i \in Dims(x) |-> y["x"][i].off]) = 0
        /\ (InitialParameters /\ y["x"] # Unset /\ y["x+c"] # Unset) =>
               y["x"] = y["x+c"]


(***************************************************************************)
(* Properties of MaskedDiffWithXvec.inference.                             *)
(***************************************************************************)
CondsBuilt == f_pc \in {"decode", "return", "done"}

\* C5: inference returns the decoder output without its first P frames when
\* prompt_feat has P > 0 frames (time length feat_len - P, feat_len computed
\* from prompt_token_len + token_len), and the whole decoder output when
\* prompt_feat has no frame.
C5_ReturnsFramesAfterPrompt ==
    f_pc = "done" =>
        LET P == Len(prompt_feat)
            L == ((prompt_token_len + token_len_in) * 22050)
                     \div (input_frame_rate * 256)
        IN  /\ Len(dec_out) = L
            /\ P > 0 => /\ Len(feat) = L - P
                        /\ \A k \in 1 .. Len(feat) : feat[k] = dec_out[k + P]
            /\ P = 0 => feat = dec_out

\* a prompt of two frames or more was cut off a longer decoder output
C5_Witness ==
    /\ f_pc = "done"
    /\ Len(prompt_feat) >= 2
    /\ Len(feat) >= 1
    /\ feat # SubSeq(dec_out, 1, Len(feat))

\* C6: with token.shape[0] # 1 the call fails on its assertion before the
\* encoder, the length regulator or the decoder is invoked and returns no
\* feature; with token.shape[0] = 1 the assertion does not fire.
C6_OnlyBatchOfOne ==
    /\ [](batch # 1 =>
            /\ f_pc \in {"assert", "AssertionError"}
            /\ \A f \in DOMAIN invoked : invoked[f] = 0
            /\ dec_out = Unset /\ feat = Unset)
    /\ [][(f_pc = "assert" /\ batch # 1) => f_pc' = "AssertionError"]_vars
    /\ [](batch = 1 => f_pc # "AssertionError")
    /\ [][(f_pc = "assert" /\ batch = 1) => f_pc' = "encode"]_vars

C6_Witness ==
    /\ f_pc = "AssertionError"
    /\ batch = 2
    /\ invoked["encoder"] = 0

\* C7: conds is the prompt followed by zeros: with a non-empty prompt_feat
\* and prompt_feat_len <= feat_len, the first prompt_feat_len frames of conds
\* equal prompt_feat (a one-frame prompt_feat is broadcast over them) and
\* every later frame up to feat_len is zero; with an empty prompt_feat conds
\* is all zeros.  A prompt of prompt_feat_len <= feat_len frames never makes
\* the assignment raise.
C7_CondsIsPromptThenZeros ==
    LET P == Len(prompt_feat)
        j == prompt_feat_len
    IN  /\ CondsBuilt =>
            /\ Len(conds) = feat_len
            /\ (P # 0 /\ j <= feat_len) =>
                   \A k \in 1 .. feat_len :
                       conds[k] = IF k <= j
                                  THEN prompt_feat[IF P = 1 THEN 1 ELSE k]
                                  ELSE 0
            /\ P = 0 => \A k \in 1 .. feat_len : conds[k] = 0
        /\ (f_pc = "RuntimeError") => (P # 0 /\ (P # j \/ j > feat_len))

\* a prompt of two different non-zero frames, shorter than conds
C7_Witness ==
    /\ f_pc = "decode"
    /\ Len(prompt_feat) = prompt_feat_len
    /\ prompt_feat_len >= 2 /\ prompt_feat_len < feat_len
    /\ prompt_feat[1] # 0 /\ prompt_feat[2] # 0 /\ prompt_feat[1] # prompt_feat[2]
    /\ SubSeq(conds, 1, prompt_feat_len) = prompt_feat

=============================================================================
